---- MODULE Spec2Model ----
(***************************************************************************)
(* Model of the todos REST service of src/main.go: five iris handlers      *)
(* (CreateTodo, GetTodos, GetTodoByID, UpdateTodo, DeleteTodo) over one    *)
(* GORM table of models.Todo rows kept in SQLite.                          *)
(*                                                                         *)
(* Every GORM call is one atomic storage step.  CreateTodo, GetTodos,      *)
(* GetTodoByID and DeleteTodo make one storage call each, so each is one   *)
(* action.  UpdateTodo makes three (First, Updates, First), so it is three *)
(* actions with a position, and the other requests interleave between its  *)
(* steps.  One UpdateTodo request is in flight at a time.                  *)
(*                                                                         *)
(* Path ids are numeric.  CreatedAt/UpdatedAt are not modelled.  A        *)
(* request body carries at most one member: ReadJSON and Updates treat the *)
(* members one by one, and every row value is reached through such         *)
(* requests.                                                               *)
(***************************************************************************)
EXTENDS Integers, FiniteSets, Sequences, TLC

\* ---- bounds ----
MaxId == 2          \* ids range over 1..MaxId
MaxRows == 1        \* rows the table may hold

Ids == 1..MaxId
Str == {"", "a"}

VARIABLES
    table,   \* the todos table: a set of rows, soft-deleted rows included
    upd,     \* the UpdateTodo request in flight: position and locals
    resp,    \* the response produced by the last step (NoResp if none)
    made,    \* history: keys of the rows for which CreateTodo answered 201
    gone     \* history: ids for which DeleteTodo answered 204

vars == <<table, upd, resp, made, gone>>

\* ---- models.Todo ----
\* key is a history tag naming the row (its creation ordinal); it is never
\* read by an operation.
Todo(id, title, description, completed, deletedAt, key) ==
    [ID |-> id, Title |-> title, Description |-> description,
     Completed |-> completed, DeletedAt |-> deletedAt, key |-> key]

ZeroTodo == Todo(0, "", "", FALSE, FALSE, 0)

\* ---- JSON ----
\* A request body: ok is FALSE for malformed JSON; each field is <<>> when
\* the member is absent and <<v>> when it is present with value v.
Body(ok, id, title, description, completed) ==
    [ok |-> ok, id |-> id, title |-> title, description |-> description,
     completed |-> completed]

Opt(S) == {<<>>} \cup {<<v>> : v \in S}

EmptyBody == Body(TRUE, <<>>, <<>>, <<>>, <<>>)
Malformed == Body(FALSE, <<>>, <<>>, <<>>, <<>>)

Members(b) == Len(b.id) + Len(b.title) + Len(b.description) + Len(b.completed)

Bodies ==
    {Malformed} \cup
    {b \in {Body(TRUE, i, t, d, c) :
               i \in Opt(Ids), t \in Opt(Str), d \in Opt(Str),
               c \in Opt(BOOLEAN)} : Members(b) <= 1}

OrZero(o, zero) == IF Len(o) = 0 THEN zero ELSE o[1]

\* ctx.ReadJSON(&todo): absent members keep the Go zero value; DeletedAt is
\* tagged json:"-" and is never read from the body.
ReadJSON(body) ==
    [err  |-> ~body.ok,
     todo |-> IF body.ok
              THEN Todo(OrZero(body.id, 0), OrZero(body.title, ""),
                        OrZero(body.description, ""),
                        OrZero(body.completed, FALSE), FALSE, 0)
              ELSE ZeroTodo]

\* ctx.JSON(todo): DeletedAt is not emitted.
ToJSON(t) ==
    [id |-> t.ID, title |-> t.Title, description |-> t.Description,
     completed |-> t.Completed, key |-> t.key]

\* ---- storage calls ----
MaxRowid(tbl) ==
    IF tbl = {} THEN 0
    ELSE CHOOSE m \in {r.ID : r \in tbl} : \A r \in tbl : r.ID <= m

\* The id SQLite gives a row inserted without one: one above the largest in
\* the table (rows are never removed).  A table declared AUTOINCREMENT may
\* skip further, to an id a client could as well have sent in the body.
NextRowid(tbl) == MaxRowid(tbl) + 1

Live(tbl, id) == \E r \in tbl : r.ID = id /\ ~r.DeletedAt

\* DB.Create(&newTodo): a non-zero ID of the value is inserted as is, a zero
\* ID is assigned by the store; a primary key held by any row (soft-deleted
\* or not) is a constraint error.
DBCreate(tbl, todo, key, fault) ==
    LET id  == IF todo.ID # 0 THEN todo.ID ELSE NextRowid(tbl)
        err == fault \/ \E r \in tbl : r.ID = id
        row == [todo EXCEPT !.ID = id, !.key = key]
    IN  [err   |-> err,
         table |-> IF err THEN tbl ELSE tbl \cup {row},
         todo  |-> IF err THEN todo ELSE row]

\* DB.Find(&todos): the rows that are not soft-deleted.
DBFind_Unscoped(tbl, fault) ==
    [err |-> fault, todos |-> IF fault THEN {} ELSE tbl]

DBFind(tbl, fault) ==
    [err |-> fault, todos |-> IF fault THEN {} ELSE {r \in tbl : ~r.DeletedAt}]

\* DB.First(&dest, id): the row with that primary key that is not
\* soft-deleted; a non-zero primary key already held by dest is a further
\* condition of the query.  dest is left as it was unless a row is found.
DBFirst_Unscoped(tbl, dest, id, fault) ==
    LET hit == {r \in tbl : r.ID = id /\ (dest.ID # 0 => r.ID = dest.ID)}
    IN  IF fault THEN [err |-> "error", todo |-> dest]
        ELSE IF hit = {} THEN [err |-> "notfound", todo |-> dest]
        ELSE [err |-> "nil", todo |-> CHOOSE r \in hit : TRUE]

DBFirst(tbl, dest, id, fault) ==
    LET hit == {r \in tbl : /\ r.ID = id
                            /\ ~r.DeletedAt
                            /\ (dest.ID # 0 => r.ID = dest.ID)}
    IN  IF fault THEN [err |-> "error", todo |-> dest]
        ELSE IF hit = {} THEN [err |-> "notfound", todo |-> dest]
        ELSE [err |-> "nil", todo |-> CHOOSE r \in hit : TRUE]

\* The assignments of Updates(values) for a struct: the non-zero fields.
Assign(t, values) ==
    [t EXCEPT !.ID          = IF values.ID # 0 THEN values.ID ELSE @,
              !.Title       = IF values.Title # "" THEN values.Title ELSE @,
              !.Description = IF values.Description # ""
                              THEN values.Description ELSE @,
              !.Completed   = IF values.Completed THEN TRUE ELSE @]

\* DB.Model(&model).Updates(values): UPDATE ... WHERE id = model.ID AND
\* deleted_at IS NULL.  The assignments are also applied to model in memory.
\* Moving a row onto a primary key another row holds is a constraint error.
DBUpdates_Unscoped(tbl, model, values, fault) ==
    LET hit   == {r \in tbl : r.ID = model.ID}
        newID == IF values.ID # 0 THEN values.ID ELSE model.ID
        clash == hit # {} /\ \E r \in tbl \ hit : r.ID = newID
        err   == fault \/ clash
    IN  [err   |-> err,
         table |-> IF err THEN tbl
                   ELSE (tbl \ hit) \cup {Assign(r, values) : r \in hit},
         model |-> Assign(model, values)]

DBUpdates(tbl, model, values, fault) ==
    LET hit   == {r \in tbl : r.ID = model.ID /\ ~r.DeletedAt}
        newID == IF values.ID # 0 THEN values.ID ELSE model.ID
        clash == hit # {} /\ \E r \in tbl \ hit : r.ID = newID
        err   == fault \/ clash
    IN  [err   |-> err,
         table |-> IF err THEN tbl
                   ELSE (tbl \ hit) \cup {Assign(r, values) : r \in hit},
         model |-> Assign(model, values)]

\* DB.Delete(&models.Todo{}, id): Todo has a gorm.DeletedAt field, so this
\* is UPDATE ... SET deleted_at = now WHERE id = ? AND deleted_at IS NULL.
DBDelete_Hard(tbl, id, fault) ==
    LET hit == {r \in tbl : r.ID = id /\ ~r.DeletedAt}
    IN  [err          |-> fault,
         table        |-> IF fault THEN tbl ELSE tbl \ hit,
         rowsAffected |-> IF fault THEN 0 ELSE Cardinality(hit)]

DBDelete(tbl, id, fault) ==
    LET hit == {r \in tbl : r.ID = id /\ ~r.DeletedAt}
    IN  [err          |-> fault,
         table        |-> IF fault THEN tbl
                          ELSE (tbl \ hit) \cup
                               {[r EXCEPT !.DeletedAt = TRUE] : r \in hit},
         rowsAffected |-> IF fault THEN 0 ELSE Cardinality(hit)]

\* ---- responses ----
\* body is the set of JSON objects sent (one for an item, any number for a
\* list, none for an error or 204); malformed tells that the request carried
\* a body that is not JSON; fault tells that a storage call of the request
\* failed with an error other than not-found.
Resp(op, id, status, body, malformed, fault) ==
    [op |-> op, id |-> id, status |-> status, body |-> body,
     malformed |-> malformed, fault |-> fault]

NoResp == Resp("none", 0, 0, {}, FALSE, FALSE)

\* ---- UpdateTodo locals ----
Idle ==
    [pc |-> "idle", id |-> 0, req |-> EmptyBody, existingTodo |-> ZeroTodo,
     updatedTodo |-> ZeroTodo, before |-> ZeroTodo, werr |-> FALSE]

Init ==
    /\ table = {}
    /\ upd = Idle
    /\ resp = NoResp
    /\ made = {}
    /\ gone = {}

\* ---- handlers ----
\* POST /todos
CreateTodo(body, fault) ==
    LET j   == ReadJSON(body)
        key == Cardinality(table) + 1
        r   == DBCreate(table, j.todo, key, fault)
    IN  /\ j.err \/ r.err \/ (key <= MaxRows /\ r.todo.ID <= MaxId)
        /\ IF j.err
           THEN /\ resp' = Resp("create", 0, 400, {}, TRUE, FALSE)
                /\ UNCHANGED <<table, made>>
           ELSE IF r.err
           THEN /\ resp' = Resp("create", 0, 500, {}, FALSE, TRUE)
                /\ UNCHANGED <<table, made>>
           ELSE /\ resp' = Resp("create", r.todo.ID, 201, {ToJSON(r.todo)},
                                FALSE, FALSE)
                /\ table' = r.table
                /\ made' = made \cup {key}
        /\ UNCHANGED <<upd, gone>>

\* GET /todos
GetTodos(fault) ==
    LET r == DBFind(table, fault)
    IN  /\ resp' = IF r.err
                   THEN Resp("list", 0, 500, {}, FALSE, TRUE)
                   ELSE Resp("list", 0, 200, {ToJSON(t) : t \in r.todos},
                             FALSE, FALSE)
        /\ UNCHANGED <<table, upd, made, gone>>

\* GET /todos/{id}
GetTodoByID(id, fault) ==
    LET r == DBFirst(table, ZeroTodo, id, fault)
    IN  /\ resp' = IF r.err = "notfound"
                   THEN Resp("get", id, 404, {}, FALSE, FALSE)
                   ELSE IF r.err = "error"
                   THEN Resp("get", id, 500, {}, FALSE, TRUE)
                   ELSE Resp("get", id, 200, {ToJSON(r.todo)}, FALSE,
                             FALSE)
        /\ UNCHANGED <<table, upd, made, gone>>

\* DELETE /todos/{id}
DeleteTodo(id, fault) ==
    LET r == DBDelete(table, id, fault)
    IN  /\ table' = r.table
        /\ IF r.err
           THEN /\ resp' = Resp("delete", id, 500, {}, FALSE, TRUE)
                /\ UNCHANGED gone
           ELSE IF r.rowsAffected = 0
           THEN /\ resp' = Resp("delete", id, 404, {}, FALSE, FALSE)
                /\ UNCHANGED gone
           ELSE /\ resp' = Resp("delete", id, 204, {}, FALSE, FALSE)
                /\ gone' = gone \cup {id}
        /\ UNCHANGED <<upd, made>>

\* PUT /todos/{id}, lines 140-157: what the handler does after the first
\* lookup and the decoding of the body: the status it answers with, or 0 to
\* go on to the write.
UpdateOutcome_DecodeFirst(ferr, jerr) ==
    IF jerr THEN 400
    ELSE IF ferr = "notfound" THEN 404
    ELSE IF ferr = "error" THEN 500
    ELSE 0

UpdateOutcome(ferr, jerr) ==
    IF ferr = "notfound" THEN 404
    ELSE IF ferr = "error" THEN 500
    ELSE IF jerr THEN 400
    ELSE 0

UpdateLookup(id, body, fault) ==
    LET f  == DBFirst(table, ZeroTodo, id, fault)
        j  == ReadJSON(body)
        st == UpdateOutcome(f.err, j.err)
    IN  /\ upd.pc = "idle"
        /\ IF st # 0
           THEN /\ resp' = Resp("update", id, st, {}, ~body.ok, st = 500)
                /\ UNCHANGED upd
           ELSE /\ resp' = NoResp
                /\ upd' = [pc |-> "write", id |-> id, req |-> body,
                           existingTodo |-> f.todo, updatedTodo |-> j.todo,
                           before |-> f.todo, werr |-> FALSE]
        /\ UNCHANGED <<table, made, gone>>

\* line 159; the result of Updates is dropped
UpdateWrite(fault) ==
    LET u == upd
        r == DBUpdates(table, u.existingTodo, u.updatedTodo, fault)
    IN  /\ u.pc = "write"
        /\ table' = r.table
        /\ upd' = [upd EXCEPT !.pc = "refetch",
                              !.existingTodo = r.model,
                              !.werr = r.err]
        /\ resp' = NoResp
        /\ UNCHANGED <<made, gone>>

\* lines 160-161; the result of First is dropped
UpdateRefetch(fault) ==
    LET u == upd
        f == DBFirst(table, u.existingTodo, u.id, fault)
    IN  /\ u.pc = "refetch"
        /\ resp' = Resp("update", u.id, 200, {ToJSON(f.todo)}, FALSE,
                        u.werr \/ f.err = "error")
        /\ upd' = Idle
        /\ UNCHANGED <<table, made, gone>>

\* ---- specifications ----
\* Spec: every storage call reaches the database (the only storage errors
\* are constraint errors).
Next ==
    \/ \E body \in Bodies : CreateTodo(body, FALSE)
    \/ GetTodos(FALSE)
    \/ \E id \in Ids : GetTodoByID(id, FALSE)
    \/ \E id \in Ids : DeleteTodo(id, FALSE)
    \/ \E id \in Ids, body \in Bodies : UpdateLookup(id, body, FALSE)
    \/ UpdateWrite(FALSE)
    \/ UpdateRefetch(FALSE)

Spec == Init /\ [][Next]_vars

\* FaultSpec: any storage call may also fail with a storage error.
FaultNext ==
    \/ \E body \in Bodies, fault \in BOOLEAN : CreateTodo(body, fault)
    \/ \E fault \in BOOLEAN : GetTodos(fault)
    \/ \E id \in Ids, fault \in BOOLEAN : GetTodoByID(id, fault)
    \/ \E id \in Ids, fault \in BOOLEAN : DeleteTodo(id, fault)
    \/ \E id \in Ids, body \in Bodies, fault \in BOOLEAN :
          UpdateLookup(id, body, fault)
    \/ \E fault \in BOOLEAN : UpdateWrite(fault)
    \/ \E fault \in BOOLEAN : UpdateRefetch(fault)

FaultSpec == Init /\ [][FaultNext]_vars

TypeOK ==
    /\ \A r \in table : r.ID \in Ids
    /\ upd.pc \in {"idle", "write", "refetch"}
    /\ resp.status \in {0, 200, 201, 204, 400, 404, 500}

\* ---- properties ----
Supplied(o, old) == IF Len(o) = 1 THEN o[1] ELSE old

\* C1: for an id with no record, or whose record is soft-deleted, Get-by-ID,
\* Delete and an Update with a well-formed body each answer 404; such an
\* Update never goes on to its write.
C1_NotFound404 ==
    [][/\ (resp'.op \in {"get", "delete"} /\ ~Live(table, resp'.id))
            => resp'.status = 404
       /\ (upd.pc = "idle" /\ resp'.op = "update" /\ ~resp'.malformed
             /\ ~Live(table, resp'.id))
            => resp'.status = 404
       /\ (upd.pc = "idle" /\ upd'.pc = "write") => Live(table, upd'.id)]_vars

C1_Witness ==
    /\ resp.op = "update" /\ resp.status = 404 /\ ~resp.malformed
    /\ \E r \in table : r.ID = resp.id /\ r.DeletedAt

C3_UpdateMerges ==
    [][(resp'.op = "update" /\ resp'.status = 200 /\ Len(upd.req.id) = 0) =>
          LET g   == DBFirst(table', ZeroTodo, resp'.id, FALSE)
              b   == upd.req
              old == upd.before
          IN  /\ g.err = "nil"
              /\ g.todo.Title = Supplied(b.title, old.Title)
              /\ g.todo.Description = Supplied(b.description, old.Description)
              /\ g.todo.Completed = Supplied(b.completed, old.Completed)]_vars

C5_CreateAlways201 ==
    [][(resp'.op = "create" /\ resp'.status # 400) =>
          /\ resp'.status = 201
          /\ \A r \in table : r.ID # resp'.id]_vars

\* C6: the id of a created record is the one the store assigns, whatever the
\* body carries, and no step changes the id of a stored record.
C6_IdStoreAssigned ==
    [][/\ (resp'.op = "create" /\ resp'.status = 201)
            => resp'.id = NextRowid(table)
       /\ \A r \in table : \E q \in table' : q.key = r.key /\ q.ID = r.ID]_vars

\* C7: a request one of whose storage calls failed with an error other than
\* not-found is answered 500.
C7_StorageFailure500 ==
    resp.fault => resp.status = 500

\* C8: an Update never answers 200 with a record that is soft-deleted when
\* the response is produced.
C8_NoSuccessForDeleted ==
    (resp.op = "update" /\ resp.status = 200) =>
        \A j \in resp.body : \A r \in table : r.key = j.key => ~r.DeletedAt

\* C9: an Update with a malformed body leaves the table as it is and answers
\* 404 when the id has no live record and 400 when it has one; it never goes
\* on to its write.
C9_MalformedUpdate ==
    [][/\ (resp'.op = "update" /\ resp'.malformed) =>
             /\ table' = table
             /\ resp'.status = IF Live(table, resp'.id) THEN 400 ELSE 404
       /\ (upd.pc = "idle" /\ upd'.pc = "write") => upd'.req.ok]_vars

C9_Witness ==
    resp.op = "update" /\ resp.malformed /\ resp.status = 400

\* C10: a soft-deleted row stays in the table exactly as it is (same id,
\* title, description, completed, still deleted) through every step, and no
\* Get-by-ID or List response carries a soft-deleted record.
C10_SoftDeleteFrozen ==
    [][/\ \A r \in table : r.DeletedAt => r \in table'
       /\ resp'.op \in {"get", "list"} =>
             \A j \in resp'.body :
                 \A r \in table' : r.key = j.key => ~r.DeletedAt]_vars

C10_Witness ==
    /\ upd.pc = "refetch"
    /\ upd.existingTodo # upd.before
    /\ \E r \in table : r.key = upd.before.key /\ r.DeletedAt
====
